---- MODULE Spec2Model ----
(***************************************************************************)
(* A model of the repair engine of rem-repairer (src/src/common.rs):       *)
(*   - the compile/patch iteration driver, file-level and project-level    *)
(*     (repair_iteration, repair_iteration_project);                       *)
(*   - the lifetime elision pass (elide_lifetimes_annotations);            *)
(*   - the suggestion patcher (repair_standard_help);                      *)
(*   - the lifetime bound inserter (repair_bounds_help);                   *)
(*   - the callee renamer (callee_renamer).                                *)
(* Each component has its own specification over its own variables; the    *)
(* variables of the other components stay at their idle values.            *)
(***************************************************************************)
EXTENDS Integers, Sequences, FiniteSets, TLC

VARIABLES
    variant,         \* driver: "file" (repair_iteration) or "project" (repair_iteration_project)
    max_iterations,  \* driver: max_iterations.unwrap_or(25)
    pc,              \* driver: position in the loop: "compile", "process", "stream", "check", "done"
    count,           \* driver: the local iteration counter
    help,            \* driver: process_errors' answer (file) / the help flag (project)
    stream,          \* driver: the records of this iteration's output still to be read (project)
    repair_result,   \* driver: the RepairResult; its success and repair_count are set on return
    calls,           \* driver, history: invocations of the subprocess so far
    called,          \* driver, history: process_errors was called in this iteration
    handed,          \* driver, history: failed invocations of which a diagnostic reached process_errors
    status,          \* driver, history: exit statuses of the invocations, in order (TRUE = success)
    sig,             \* elision: the signature of the function named fn_name in the file
    elide_pc,        \* elision: "ready", or "panicked" once a pass has aborted
    runs,            \* elision, history: of each pass, the signature before and after it, the
                     \* ElideLifetimeResult, the parameters kept (by their names before the
                     \* pass) and whether the renumbering met a nested lifetime argument
    file,            \* patcher: the content of the file under repair, a string
    patch_pc,        \* patcher: "stream" while repair_standard_help reads stderr's records,
                     \* then "returned" or "panicked"
    helped,          \* patcher: the local flag that becomes the return value
    patched,         \* patcher, history: the number of records read and, of the last one, the
                     \* file before and after it and the suggestions the regex captured in it
    bound_file,      \* bound inserter: the items of the file under repair (its syntax tree)
    bound_pc,        \* bound inserter: "stream" while repair_bounds_help reads, then "returned"
    bound_helped,    \* bound inserter: the local flag `helped`
    bounded,         \* bound inserter, history: the number of records read and, of the last
                     \* one, the file before and after it and the bounds the regex captured
    rename_file,     \* renamer: the items of the file (its syntax tree)
    renamed          \* renamer, history: the number of callee_renamer passes run

driverVars == <<variant, max_iterations, pc, count, help, stream, repair_result, calls,
                called, handed, status>>

elideVars == <<sig, elide_pc, runs>>

patchVars == <<file, patch_pc, helped, patched>>

boundVars == <<bound_file, bound_pc, bound_helped, bounded>>

renameVars == <<rename_file, renamed>>

vars == <<driverVars, elideVars, patchVars, boundVars, renameVars>>

\* What the steps of one component leave alone.
notDriver == <<elideVars, patchVars, boundVars, renameVars>>

notElide == <<driverVars, patchVars, boundVars, renameVars>>

notPatch == <<driverVars, elideVars, boundVars, renameVars>>

notBound == <<driverVars, elideVars, patchVars, renameVars>>

notRename == <<driverVars, elideVars, patchVars, boundVars>>

\* The idle values of the components a specification leaves alone.
ElideIdle == sig = <<>> /\ elide_pc = "idle" /\ runs = <<>>

NothingPatched == [n |-> 0, before |-> <<>>, help_lines |-> <<>>, after |-> <<>>]

PatchIdle == file = <<>> /\ patch_pc = "idle" /\ helped = FALSE /\ patched = NothingPatched

BoundIdle ==
    /\ bound_file = <<>>
    /\ bound_pc = "idle"
    /\ bound_helped = FALSE
    /\ bounded = [n |-> 0, before |-> <<>>, after |-> <<>>, help_lines |-> <<>>]

RenameIdle == rename_file = <<>> /\ renamed = 0

(***************************************************************************)
(* REPAIR ITERATION DRIVER                                                 *)
(***************************************************************************)

\* max_iterations.unwrap_or(25)
DefaultMaxIterations == 25

\* The largest explicit budget Some(n) the model passes (the smallest is Some(0);
\* a negative budget behaves as Some(0) does: the counter never equals it).
MaxBudget == 3

\* The counter is an i32 with no upper limit in the code; the model stops a run
\* that has not terminated after this many failed compiles.
CountCap == 4

\* Length of one iteration's record stream, and of one message's span list.
MaxRecords == 2
MaxSpans == 2

\* Option<i32>: None is <<>>, Some(n) is <<n>>
MaxIterationsArgs == {<<>>} \cup {<<n>> : n \in 0 .. MaxBudget}

unwrap_or(opt, default) == IF opt = <<>> THEN default ELSE opt[1]

RECURSIVE SeqsUpTo(_, _)
SeqsUpTo(S, n) ==
    IF n = 0 THEN {<<>>}
    ELSE LET shorter == SeqsUpTo(S, n - 1)
         IN  shorter \cup {Append(s, x) : s \in {t \in shorter : Len(t) = n - 1}, x \in S}

\* One record of the build tool's output: one that does not deserialize (Err), a
\* CargoError without a message, or one with a message; a span is TRUE when
\* src_path.contains(&span.file_name).
Records ==
    {[kind |-> "Err", spans |-> <<>>], [kind |-> "None", spans |-> <<>>]}
        \cup {[kind |-> "Some", spans |-> s] : s \in SeqsUpTo(BOOLEAN, MaxSpans)}

Streams == SeqsUpTo(Records, MaxRecords)

\* lines 212-217 / 717-722
InitialRepairResult ==
    [success |-> FALSE, repair_count |-> 0,
     has_non_elidible_lifetime |-> FALSE, has_struct_lt |-> FALSE]

\* lines 241-243 / 779-781
ReturnedNoCount(r, s, c) == [r EXCEPT !.success = s]

Returned(r, s, c) == [r EXCEPT !.success = s, !.repair_count = c]

DriverInit ==
    /\ variant \in {"file", "project"}
    /\ \E arg \in MaxIterationsArgs : max_iterations = unwrap_or(arg, DefaultMaxIterations)
    /\ pc = "compile"
    /\ count = 0
    /\ help = FALSE
    /\ stream = <<>>
    /\ repair_result = InitialRepairResult
    /\ calls = 0
    /\ called = FALSE
    /\ handed = 0
    /\ status = <<>>
    /\ ElideIdle
    /\ PatchIdle
    /\ BoundIdle
    /\ RenameIdle

\* compile_cmd.output() with out.status.success(): break true, then return.
CompileSucceeds ==
    /\ pc = "compile"
    /\ calls' = calls + 1
    /\ status' = Append(status, TRUE)
    /\ repair_result' = Returned(repair_result, TRUE, count)
    /\ pc' = "done"
    /\ UNCHANGED <<variant, max_iterations, count, help, stream, called, handed>>
    /\ UNCHANGED notDriver

\* compile_cmd.output() with a failure status: count += 1; the file-level driver
\* goes on to process_errors(stderr), the project-level one to the record stream.
CompileFails ==
    /\ pc = "compile"
    /\ count < CountCap
    /\ calls' = calls + 1
    /\ status' = Append(status, FALSE)
    /\ count' = count + 1
    /\ help' = FALSE
    /\ called' = FALSE
    /\ IF variant = "file"
       THEN pc' = "process" /\ stream' = <<>>
       ELSE pc' = "stream" /\ stream' \in Streams
    /\ UNCHANGED <<variant, max_iterations, repair_result, handed>>
    /\ UNCHANGED notDriver

\* File-level: process_errors(temp.as_str()), whatever it answers.
ProcessErrors ==
    /\ pc = "process"
    /\ help' \in BOOLEAN
    /\ called' = TRUE
    /\ handed' = handed + 1
    /\ pc' = "check"
    /\ UNCHANGED <<variant, max_iterations, count, stream, repair_result, calls, status>>
    /\ UNCHANGED notDriver

\* Project-level: a record that is Err, has no message, or whose spans are used up.
SkipRecord ==
    /\ pc = "stream"
    /\ stream # <<>>
    /\ Head(stream).kind # "Some" \/ Head(stream).spans = <<>>
    /\ stream' = Tail(stream)
    /\ UNCHANGED <<variant, max_iterations, pc, count, help, repair_result, calls, called,
                   handed, status>>
    /\ UNCHANGED notDriver

\* The message with its first span read.
NextSpan(r) == [r EXCEPT !.spans = Tail(r.spans)]

\* Project-level: a span of another file.
SkipSpan ==
    /\ pc = "stream"
    /\ stream # <<>>
    /\ Head(stream).kind = "Some"
    /\ Head(stream).spans # <<>>
    /\ ~Head(Head(stream).spans)
    /\ stream' = <<NextSpan(Head(stream))>> \o Tail(stream)
    /\ UNCHANGED <<variant, max_iterations, pc, count, help, repair_result, calls, called,
                   handed, status>>
    /\ UNCHANGED notDriver

\* Project-level: a span of the file under repair: process_errors(&message); on
\* true, help = true and break out of the span loop (the record loop goes on).
ProcessSpan ==
    /\ pc = "stream"
    /\ stream # <<>>
    /\ Head(stream).kind = "Some"
    /\ Head(stream).spans # <<>>
    /\ Head(Head(stream).spans)
    /\ \E answer \in BOOLEAN :
          IF answer
          THEN help' = TRUE /\ stream' = Tail(stream)
          ELSE help' = help /\ stream' = <<NextSpan(Head(stream))>> \o Tail(stream)
    /\ called' = TRUE
    /\ handed' = IF called THEN handed ELSE handed + 1
    /\ UNCHANGED <<variant, max_iterations, pc, count, repair_result, calls, status>>
    /\ UNCHANGED notDriver

\* Project-level: the stream is read to its end.
EndOfStream ==
    /\ pc = "stream"
    /\ stream = <<>>
    /\ pc' = "check"
    /\ UNCHANGED <<variant, max_iterations, count, help, stream, repair_result, calls,
                   called, handed, status>>
    /\ UNCHANGED notDriver

\* A variant of the loop's end that tests the budget alone.
CheckBudgetOnly ==
    /\ pc = "check"
    /\ IF max_iterations = count
       THEN pc' = "done" /\ repair_result' = Returned(repair_result, FALSE, count)
       ELSE pc' = "compile" /\ repair_result' = repair_result
    /\ UNCHANGED <<variant, max_iterations, count, help, stream, calls, called, handed,
                   status>>
    /\ UNCHANGED notDriver

\* if !process_errors(..) / if !help { break false }; if max_iterations == count
\* { break false }; otherwise loop.
Check ==
    /\ pc = "check"
    /\ IF ~help \/ max_iterations = count
       THEN pc' = "done" /\ repair_result' = Returned(repair_result, FALSE, count)
       ELSE pc' = "compile" /\ repair_result' = repair_result
    /\ UNCHANGED <<variant, max_iterations, count, help, stream, calls, called, handed,
                   status>>
    /\ UNCHANGED notDriver

DriverNext ==
    \/ CompileSucceeds
    \/ CompileFails
    \/ ProcessErrors
    \/ SkipRecord
    \/ SkipSpan
    \/ ProcessSpan
    \/ EndOfStream
    \/ Check

Spec == DriverInit /\ [][DriverNext]_vars

\* The failed invocations so far: the iterations executed.
Failures == Cardinality({i \in DOMAIN status : ~status[i]})

\* C1: the driver never invokes the subprocess more than max_iterations times, and
\* neither the counter nor the returned repair_count exceeds max_iterations,
\* whatever max_iterations is.
C1_WithinBudget ==
    /\ calls <= max_iterations
    /\ count <= max_iterations
    /\ repair_result.repair_count <= max_iterations

\* C2: when the batch of iteration k ends with no progress, the next step of the
\* driver returns success == false and repair_count == k without another
\* invocation of the subprocess, and a driver that has returned invokes nothing.
C2_NoProgressStops ==
    /\ [][(pc = "check" /\ ~help) =>
            /\ pc' = "done"
            /\ repair_result'.success = FALSE
            /\ repair_result'.repair_count = Failures
            /\ calls' = calls]_vars
    /\ [](pc = "done" => ~ENABLED DriverNext)

\* C2's case: the project-level driver stopped at its second iteration, within
\* its budget, because that iteration's batch brought no progress.
C2_Witness ==
    /\ pc = "done"
    /\ variant = "project"
    /\ ~help
    /\ status = <<FALSE, FALSE>>
    /\ count < max_iterations
    /\ repair_result.repair_count = 2

\* C3 as stated: on return, success is true exactly when the last invocation
\* exited successfully, and repair_count is the number of failed invocations of
\* which a diagnostic was handed to process_errors.
C3_CountsHandedIterations ==
    pc = "done" =>
        /\ repair_result.success = status[Len(status)]
        /\ repair_result.repair_count = handed

\* C3 as amended: on return, success is true exactly when the last invocation
\* exited successfully, and repair_count is the number of failed invocations,
\* whether or not any of their diagnostics reached process_errors.
C3_CountsFailedInvocations ==
    pc = "done" =>
        /\ repair_result.success = status[Len(status)]
        /\ repair_result.repair_count = Failures

\* C3's case: the project-level driver returns after two failed invocations, the
\* second of which had no diagnostic of the file under repair, so that
\* process_errors was called in one iteration only.
C3_Witness ==
    /\ pc = "done"
    /\ variant = "project"
    /\ status = <<FALSE, FALSE>>
    /\ handed = 1
    /\ ~repair_result.success
    /\ repair_result.repair_count = 2

\* C12: of a run that returned success == false, repair_count == max_iterations
\* exactly when the last batch reported progress and the budget stopped the run,
\* and repair_count < max_iterations exactly when the last batch reported no
\* progress.
C12_FailuresToldApart ==
    (pc = "done" /\ ~repair_result.success) =>
        /\ (repair_result.repair_count = max_iterations) <=> help
        /\ (repair_result.repair_count < max_iterations) <=> ~help

(***************************************************************************)
(* LIFETIME ELISION                                                        *)
(*                                                                         *)
(* A type is the sequence of the places in it that can carry a lifetime,   *)
(* in the order a syn visitor meets them.  A place is                      *)
(*   k = "ref": a reference &'n T (TypeReference), n = "" when the         *)
(*              lifetime is absent (&T);                                   *)
(*   k = "arg": a lifetime given as a generic argument, Foo<'n>            *)
(*              (GenericArgument::Lifetime);                               *)
(*   k = "bnd": a lifetime in any other position of a type, as the bound   *)
(*              of dyn Trait + 'n or, for a type parameter, of T: 'n.      *)
(* The visitors treat every place on its own and recurse through all       *)
(* types, so the nesting of the places does not matter to them.            *)
(***************************************************************************)

\* Number of typed inputs of a function of the model (each with one place).
MaxInputs == 2

\* Number of bounds of a where-clause lifetime predicate 'a: 'b + 'c.
MaxBounds == 2

\* Number of passes run on one file.
MaxPasses == 2

\* The lifetime names of the functions the model starts from.  The model's
\* functions declare none, 'a, or 'a and 'b; a name a function does not declare
\* is a lifetime of an enclosing impl or trait.
LtNames == {"'a", "'b"}

Places == [k : {"ref", "arg", "bnd"}, n : LtNames]

Receiver == [kind |-> "Receiver", ty |-> <<>>]

Typed(ty) == [kind |-> "Typed", ty |-> ty]

LifetimeParam(n) == [kind |-> "Lifetime", name |-> n, lts |-> <<>>]

\* A type parameter T with the lifetimes of its bounds (T: 'a, T: Trait<'a>).
TypeParam(lts) == [kind |-> "Type", name |-> "T", lts |-> lts]

\* WherePredicate::Lifetime, 'lifetime: 'bounds[1] + 'bounds[2] ...
LifetimePredicate(n, bounds) == [kind |-> "Lifetime", lifetime |-> n, bounds |-> bounds]

\* WherePredicate::Type, T: 'bounds[1] ...
TypePredicate(bounds) == [kind |-> "Type", lifetime |-> "", bounds |-> bounds]

RECURSIVE Concat(_)
Concat(ss) == IF ss = <<>> THEN <<>> ELSE Head(ss) \o Concat(Tail(ss))

Map(f(_), s) == [i \in DOMAIN s |-> f(s[i])]

Range(s) == {s[i] : i \in DOMAIN s}

\* LtGetterElider: the names of all lifetimes of a type, in order.
PlaceName(p) == p.n

LtGetterElider(ty) == Map(PlaceName, SelectSeq(ty, LAMBDA p : p.n # ""))

\* HashMap lookups on the usage map built from the vector v (lines 450-455).
Usage(v, id) == Cardinality({i \in DOMAIN v : v[i] = id})

contains_key(v, id) == Usage(v, id) > 0

\* lines 399-409, with the unwrap() of line 405 on a predicate without bounds.
WhereCannotElide(wc) ==
    Concat(Map(LAMBDA wp : IF wp.kind = "Lifetime"
                           THEN <<wp.lifetime, wp.bounds[1]>>
                           ELSE <<>>,
               wc))

WherePanics(wc) == \E i \in DOMAIN wc : wc[i].kind = "Lifetime" /\ wc[i].bounds = <<>>

\* lines 399-418: the where-clause lifetimes, then the lifetimes of the return type.
CannotElide(s) == WhereCannotElide(s.where_clause) \o LtGetterElider(s.output)

\* line 426
HasReceiver(s) == \E i \in DOMAIN s.inputs : s.inputs[i].kind = "Receiver"

TypedInputs(s) == SelectSeq(s.inputs, LAMBDA a : a.kind = "Typed")

NonLifetimeParams(s) == SelectSeq(s.params, LAMBDA gp : gp.kind # "Lifetime")

\* The vector v of lines 423-449: the lifetimes of the typed inputs, then (for a
\* function without receiver) of the return type and of the non-lifetime
\* generic parameters.
InputLifetimes(s) == Concat(Map(LAMBDA a : LtGetterElider(a.ty), TypedInputs(s)))

UsageVector(s) ==
    InputLifetimes(s)
        \o LtGetterElider(s.output)
        \o Concat(Map(LAMBDA gp : LtGetterElider(gp.lts), NonLifetimeParams(s)))

\* FnLifetimeEliderTypeHelper::visit_type_reference_mut (lines 281-294).
Strips(place, cannot_elide, v) ==
    /\ place.k = "ref"
    /\ place.n # ""
    /\ ~(place.n \in Range(cannot_elide))
    /\ (~contains_key(v, place.n) \/ Usage(v, place.n) <= 1)

FnLifetimeEliderTypeHelper(ty, cannot_elide, v) ==
    Map(LAMBDA p : IF Strips(p, cannot_elide, v) THEN [p EXCEPT !.n = ""] ELSE p, ty)

\* The filter of lines 488-501 on a lifetime parameter.
Keeps(id, cannot_elide, v) ==
    IF ~contains_key(v, id)
    THEN FALSE
    ELSE Usage(v, id) > 1 \/ id \in Range(cannot_elide)

\* format!("'lt{}", lt_count)
FreshName(lt_count) == "'lt" \o ToString(lt_count)

\* lines 504-516: new_lts, as the sequence of the surviving names in order; the
\* i-th becomes 'lt(i-1).
Survivors(params) ==
    Map(LAMBDA gp : gp.name, SelectSeq(params, LAMBDA gp : gp.kind = "Lifetime"))

Index(names, id) == CHOOSE i \in DOMAIN names : names[i] = id

new_lts_get(names, id) == FreshName(Index(names, id) - 1)

new_lts_has(names, id) == id \in Range(names)

Renumbered(params) ==
    LET names == Survivors(params)
    IN  Map(LAMBDA gp : IF gp.kind = "Lifetime"
                        THEN [gp EXCEPT !.name = new_lts_get(names, gp.name)]
                        ELSE gp,
            params)

\* ChangeLtHelperElider (lines 339-363) on one place: a lifetime argument is
\* renamed or becomes '_, any other lifetime is renamed when new_lts has it.
ChangeLt(p, names) ==
    IF p.n = "" THEN p
    ELSE IF new_lts_has(names, p.n) THEN [p EXCEPT !.n = new_lts_get(names, p.n)]
    ELSE IF p.k = "arg" THEN [p EXCEPT !.n = "'_"]
    ELSE p

ChangeLtHelperElider(ty, names) == Map(LAMBDA p : ChangeLt(p, names), ty)

\* line 346: the helper's own flag after its visit of a type.
HelperHasStructLt(ty) == \E i \in DOMAIN ty : ty[i].k = "arg"

\* lines 530-553: the where-clause; only lifetime predicates are renamed.
RenameName(n, names) == IF new_lts_has(names, n) THEN new_lts_get(names, n) ELSE n

ChangeWhere(wc, names) ==
    Map(LAMBDA wp : IF wp.kind = "Lifetime"
                    THEN [wp EXCEPT !.lifetime = RenameName(wp.lifetime, names),
                                    !.bounds = Map(LAMBDA n : RenameName(n, names), wp.bounds)]
                    ELSE wp,
        wc)

\* lines 520-526, 557-563, 571-577: the helper is built with has_struct_lt: false
\* and its flag is read before it visits the type.
FlagOfNewHelper(self_flag, ty) == IF FALSE THEN TRUE ELSE self_flag

\* FnLifetimeElider::fn_lifetime_elider (lines 396-583) on the signature s, for a
\* visitor whose flags are still false: the signature it leaves, the visitor's
\* two flags, and for the history the names of the lifetime parameters that passed
\* the filter (kept) and whether a ChangeLtHelperElider met a lifetime argument
\* (seen).
fn_lifetime_elider(s) ==
    LET cannot_elide == CannotElide(s)
        v == UsageVector(s)
        strip(ty) == FnLifetimeEliderTypeHelper(ty, cannot_elide, v)
        \* lines 456-483: strip the inputs, the return type, the other parameters
        inputs1 == Map(LAMBDA a : IF a.kind = "Typed" THEN [a EXCEPT !.ty = strip(a.ty)] ELSE a,
                       s.inputs)
        output1 == strip(s.output)
        params1 == Map(LAMBDA gp : IF gp.kind = "Lifetime"
                                   THEN gp
                                   ELSE [gp EXCEPT !.lts = strip(gp.lts)],
                       s.params)
        \* lines 484-502: filter the lifetime parameters
        params2 == SelectSeq(params1,
                             LAMBDA gp : gp.kind # "Lifetime" \/ Keeps(gp.name, cannot_elide, v))
        \* lines 504-516: renumber them
        names == Survivors(params2)
        params3 == Renumbered(params2)
        \* lines 517-580: rename in the other parameters, the where-clause, the
        \* inputs and the return type
        change(ty) == ChangeLtHelperElider(ty, names)
        params4 == Map(LAMBDA gp : IF gp.kind = "Lifetime"
                                   THEN gp
                                   ELSE [gp EXCEPT !.lts = change(gp.lts)],
                       params3)
        visited == Concat(Map(LAMBDA gp : gp.lts, NonLifetimeParams([params |-> params3])))
                       \o Concat(Map(LAMBDA a : a.ty, TypedInputs([inputs |-> inputs1])))
                       \o output1
    IN  IF HasReceiver(s)
        THEN [sig |-> s, annotations_left |-> FALSE, has_struct_lt |-> FALSE,
              kept |-> Survivors(s.params), seen |-> FALSE]
        ELSE [sig |-> [params |-> params4,
                       where_clause |-> ChangeWhere(s.where_clause, names),
                       inputs |-> Map(LAMBDA a : IF a.kind = "Typed"
                                                 THEN [a EXCEPT !.ty = change(a.ty)]
                                                 ELSE a,
                                      inputs1),
                       output |-> change(output1)],
              annotations_left |-> names # <<>>,
              has_struct_lt |-> FlagOfNewHelper(FALSE, visited),
              kept |-> names,
              seen |-> HelperHasStructLt(visited)]

\* The functions the model starts from.  They declare no lifetime, 'a, or 'a
\* and 'b (a name a function does not declare belongs to an enclosing impl or
\* trait), then no type parameter, T: 'a or T: Trait<'a>.
ParamChoices ==
    {<<>>, <<LifetimeParam("'a")>>, <<LifetimeParam("'a"), LifetimeParam("'b")>>}

TypeParamChoices ==
    {<<>>, <<TypeParam(<<[k |-> "bnd", n |-> "'a"]>>)>>,
     <<TypeParam(<<[k |-> "arg", n |-> "'a"]>>)>>}

\* No where-clause, or one predicate: 'n: 'b1 + 'b2 ..., or T: 'a.
Predicates ==
    {LifetimePredicate(n, b) : n \in LtNames, b \in SeqsUpTo(LtNames, MaxBounds)}
        \cup {TypePredicate(<<"'a">>)}

WhereChoices == {<<>>} \cup {<<wp>> : wp \in Predicates}

\* The typed inputs, one place each.  The pass treats the inputs one by one and
\* alike, so their order is immaterial and the model lists them in one order.
PlaceOrder ==
    <<[k |-> "ref", n |-> "'a"], [k |-> "ref", n |-> "'b"],
      [k |-> "arg", n |-> "'a"], [k |-> "arg", n |-> "'b"],
      [k |-> "bnd", n |-> "'a"], [k |-> "bnd", n |-> "'b"]>>

TypedLists(n) ==
    {Map(LAMBDA i : Typed(<<PlaceOrder[i]>>), is) :
        is \in {js \in SeqsUpTo(DOMAIN PlaceOrder, n) :
                    \A i \in 1 .. Len(js) - 1 : js[i] <= js[i + 1]}}

\* Without a receiver, up to MaxInputs typed inputs; with one, one fewer.
InputChoices ==
    TypedLists(MaxInputs) \cup {<<Receiver>> \o t : t \in TypedLists(MaxInputs - 1)}

\* No return type (or one without lifetime), &'n T or Foo<'n>.
OutputChoices == {<<>>} \cup {<<p>> : p \in {q \in Places : q.k # "bnd"}}

Signatures ==
    {[params |-> lp \o tp, where_clause |-> wc, inputs |-> ins, output |-> out] :
        lp \in ParamChoices, tp \in TypeParamChoices, wc \in WhereChoices,
        ins \in InputChoices, out \in OutputChoices}

\* The idle values of the driver's variables.
DriverIdle ==
    /\ variant = "idle"
    /\ max_iterations = 0
    /\ pc = "idle"
    /\ count = 0
    /\ help = FALSE
    /\ stream = <<>>
    /\ repair_result = InitialRepairResult
    /\ calls = 0
    /\ called = FALSE
    /\ handed = 0
    /\ status = <<>>

ElideInit ==
    /\ sig \in Signatures
    /\ elide_pc = "ready"
    /\ runs = <<>>
    /\ DriverIdle
    /\ PatchIdle
    /\ BoundIdle
    /\ RenameIdle

\* elide_lifetimes_annotations (lines 599-617): parse the file, run the visitor on
\* the function named fn_name, write the file, return the flags.  The unwrap() of
\* line 405 aborts the call before the file is written.
Elide ==
    /\ elide_pc = "ready"
    /\ Len(runs) < MaxPasses
    /\ IF WherePanics(sig.where_clause)
       THEN elide_pc' = "panicked" /\ UNCHANGED <<sig, runs>>
       ELSE LET visit == fn_lifetime_elider(sig)
            IN  /\ sig' = visit.sig
                /\ runs' = Append(runs,
                                  [before |-> sig,
                                   after |-> visit.sig,
                                   result |-> [success |-> TRUE,
                                               annotations_left |-> visit.annotations_left,
                                               has_struct_lt |-> visit.has_struct_lt],
                                   kept |-> visit.kept,
                                   seen |-> visit.seen])
                /\ elide_pc' = elide_pc
    /\ UNCHANGED notElide

ElideNext == Elide

ElideSpec == ElideInit /\ [][ElideNext]_vars

\* The lifetime parameters a signature declares.
Declared(s) == Range(Survivors(s.params))

\* The names a where-clause mentions, on either side of any predicate.
WhereNames(s) ==
    UNION {({s.where_clause[i].lifetime} \ {""}) \cup Range(s.where_clause[i].bounds) :
              i \in DOMAIN s.where_clause}

InputUses(s, n) == Usage(InputLifetimes(s), n)

InReturnOrWhere(s, n) == n \in Range(LtGetterElider(s.output)) \cup WhereNames(s)

\* C4, the parameters that survive: after a pass on a function without receiver,
\* every lifetime parameter that survives is used at least twice among the typed
\* inputs, or is in the return type, or is in a where-clause predicate.
C4_SurvivorsAreNeeded ==
    \A i \in DOMAIN runs :
        LET s == runs[i].before
        IN  ~HasReceiver(s) =>
                \A n \in Declared(s) \cap Range(runs[i].kept) :
                    InputUses(s, n) >= 2 \/ InReturnOrWhere(s, n)

\* C4, the parameters that are dropped: every lifetime parameter a pass on a
\* function without receiver dropped was used at most once among the inputs and
\* was neither in the return type nor in any where-clause predicate, on either
\* side and in any bound position.
C4_DroppedWereElidable ==
    \A i \in DOMAIN runs :
        LET s == runs[i].before
        IN  ~HasReceiver(s) =>
                \A n \in Declared(s) \ Range(runs[i].kept) :
                    InputUses(s, n) <= 1 /\ ~InReturnOrWhere(s, n)

\* C4: elision soundness, both parts.
C4_ElisionSound == C4_SurvivorsAreNeeded /\ C4_DroppedWereElidable

\* C5: a second pass leaves the signature and both flags as the first pass left
\* them.
C5_ElisionIdempotent ==
    \A i \in DOMAIN runs :
        i > 1 => /\ runs[i].after = runs[i - 1].after
                 /\ runs[i].result = runs[i - 1].result

\* C10: has_struct_lt is true exactly when the renumbering step met a lifetime
\* given as a generic argument in an input type, the return type or a
\* non-lifetime generic parameter.
C10_StructLtFlag ==
    \A i \in DOMAIN runs : runs[i].result.has_struct_lt = runs[i].seen

\* C11: the flag annotations_left a pass returns is true exactly when the generic
\* parameter list of the function still holds a lifetime parameter after the
\* pass, for a function with a receiver as for one without.
C11_AnnotationsLeftFlag ==
    \A i \in DOMAIN runs :
        runs[i].result.annotations_left = (Declared(runs[i].after) # {})

\* The names at the places of a signature where a lifetime is used, place by
\* place: the where-clause (both sides of every predicate), the input types, the
\* return type, the non-lifetime generic parameters.  "" is an absent lifetime.
\* A pass removes no place, so the i-th name before it and the i-th name after
\* it are the names of one occurrence.
WhereOccurrences(s) ==
    Concat(Map(LAMBDA wp : <<wp.lifetime>> \o wp.bounds, s.where_clause))

TypeOccurrences(s) ==
    Concat(Map(LAMBDA a : Map(PlaceName, a.ty), TypedInputs(s))) \o Map(PlaceName, s.output)

ParamOccurrences(s) ==
    Concat(Map(LAMBDA gp : Map(PlaceName, gp.lts), NonLifetimeParams(s)))

Occurrences(s) == WhereOccurrences(s) \o TypeOccurrences(s) \o ParamOccurrences(s)

\* An occurrence that carries a name: neither absent nor the placeholder '_.
Named(n) == n # "" /\ n # "'_"

\* C13: after a pass on a function without receiver the surviving lifetime
\* parameters are 'lt0, 'lt1, ... in the order of their declaration, and any two
\* occurrences that carry a name after the pass carry the same name after it
\* exactly when they carried the same name before it.
C13_RenamedConsistently ==
    \A i \in DOMAIN runs :
        ~HasReceiver(runs[i].before) =>
            LET was == Occurrences(runs[i].before)
                is == Occurrences(runs[i].after)
                left == Survivors(runs[i].after.params)
            IN  /\ \A k \in DOMAIN left : left[k] = FreshName(k - 1)
                /\ \A j, k \in DOMAIN is :
                       (Named(is[j]) /\ Named(is[k])) => ((is[j] = is[k]) <=> (was[j] = was[k]))

\* C14: after a pass on a function without receiver, an occurrence of a lifetime
\* the function declared before the pass that still carries a name carries the
\* name of a lifetime parameter the function declares after the pass.
C14_NoDanglingLifetime ==
    \A i \in DOMAIN runs :
        ~HasReceiver(runs[i].before) =>
            LET was == Occurrences(runs[i].before)
                is == Occurrences(runs[i].after)
            IN  \A j \in DOMAIN is :
                    (was[j] \in Declared(runs[i].before) /\ Named(is[j])) =>
                        is[j] \in Declared(runs[i].after)

\* C15: a pass leaves verbatim every annotation of an input type or the return
\* type that names a lifetime the function does not declare itself ('static, a
\* lifetime of the enclosing impl or trait).
C15_ForeignLifetimesKept ==
    \A i \in DOMAIN runs :
        LET was == TypeOccurrences(runs[i].before)
            is == TypeOccurrences(runs[i].after)
        IN  \A j \in DOMAIN was :
                (was[j] # "" /\ ~(was[j] \in Declared(runs[i].before))) => is[j] = was[j]

(***************************************************************************)
(* SUGGESTION PATCHER                                                      *)
(*                                                                         *)
(* The file is a string, a sequence of characters; a line of it is the     *)
(* text between two newlines.                                              *)
(***************************************************************************)

\* Length of the file the model starts from, in characters.
MaxFileLen == 4

\* Largest line number a suggestion names.
MaxLineNumber == 3

\* Number of suggestions the regex finds in one rendered diagnostic.
MaxSuggestions == 2

\* Number of records repair_standard_help reads from stderr.
MaxDiagnostics == 2

NL == "\n"

Contents == SeqsUpTo({"a", NL}, MaxFileLen)

\* The replacement texts: the regex's .+ is not empty and holds no newline.  The
\* second one stands for a text with "&'lifetime" in it.
Replacements == {<<"r">>, <<"&'lifetime">>}

\* What captured["line_number"].parse::<usize>() gives: <<>> for Err (a number
\* too large for usize), <<n>> for Ok(n); and the replacement.
Captures ==
    [line_number : {<<>>} \cup {<<n>> : n \in 0 .. MaxLineNumber}, replacement : Replacements]

\* file_content.split("\n") (line 61)
RECURSIVE split(_)
split(text) ==
    IF \E i \in DOMAIN text : text[i] = NL
    THEN LET i == CHOOSE j \in DOMAIN text : text[j] = NL /\ \A k \in 1 .. j - 1 : text[k] # NL
         IN  <<SubSeq(text, 1, i - 1)>> \o split(SubSeq(text, i + 1, Len(text)))
    ELSE <<text>>

\* writeln!(writer, "{}", line)
writeln(line) == line \o <<NL>>

\* The loop `while current_line < target { writeln(lines[current_line]); current_line += 1 }`
\* of lines 89-92 and 96-99: what it writes, and whether lines[current_line]
\* runs off the end of the vector.
RECURSIVE CopiedLines(_, _, _)
CopiedLines(lines, current_line, target) ==
    IF current_line < target /\ current_line < Len(lines)
    THEN writeln(lines[current_line + 1]) \o CopiedLines(lines, current_line + 1, target)
    ELSE <<>>

CopyPanics(lines, current_line, target) == current_line < target /\ target > Len(lines)

\* replacement.contains("&'lifetime")
HasPlaceholder(replacement) == \E i \in DOMAIN replacement : replacement[i] = "&'lifetime"

\* The body of `for captured in help_lines` (lines 71-95) from the state st of the
\* writer: st.out is what has been written, st.current_line the cursor.  For the
\* line number 0, line_number - 1 panics in a build with overflow checks and wraps
\* to usize::MAX in one without, where the copy loop then runs off the vector.
Suggestion(st, captured, lines, overflow_checks) ==
    IF st.panicked \/ captured.line_number = <<>> \/ HasPlaceholder(captured.replacement)
    THEN st
    ELSE LET line_number == captured.line_number[1]
             target == IF line_number = 0 THEN Len(lines) + 1 ELSE line_number - 1
             copied == st.out \o CopiedLines(lines, st.current_line, target)
         IN  IF line_number = 0 /\ overflow_checks
             THEN [st EXCEPT !.helped = TRUE, !.panicked = TRUE]
             ELSE IF CopyPanics(lines, st.current_line, target)
             THEN [st EXCEPT !.helped = TRUE, !.panicked = TRUE, !.out = copied]
             ELSE [st EXCEPT !.helped = TRUE,
                             !.out = copied \o writeln(captured.replacement),
                             !.current_line =
                                 (IF st.current_line < target THEN target ELSE st.current_line) + 1]

RECURSIVE Suggestions(_, _, _, _)
Suggestions(st, help_lines, lines, overflow_checks) ==
    IF help_lines = <<>>
    THEN st
    ELSE Suggestions(Suggestion(st, Head(help_lines), lines, overflow_checks),
                     Tail(help_lines), lines, overflow_checks)

\* One pass of `for item in stream` (lines 50-100) over the file content: read and
\* split the file, create (truncate) it, apply the suggestions, copy the rest.
Rewrite(content, help_lines, was_helped, overflow_checks) ==
    LET lines == split(content)
        st == Suggestions([out |-> <<>>, current_line |-> 0, helped |-> was_helped,
                           panicked |-> FALSE],
                          help_lines, lines, overflow_checks)
    IN  IF st.panicked
        THEN st
        ELSE [st EXCEPT !.out = st.out \o CopiedLines(lines, st.current_line, Len(lines))]

PatchInit ==
    /\ file \in Contents
    /\ patch_pc = "stream"
    /\ helped = FALSE
    /\ patched = NothingPatched
    /\ DriverIdle
    /\ ElideIdle
    /\ BoundIdle
    /\ RenameIdle

\* stderr holds another record; its rendered text holds the suggestions
\* help_lines.  When a panic unwinds, the BufWriter is dropped and flushes what
\* was written; when it aborts the process, the file stays as File::create left
\* it, empty.
PatchRecord ==
    /\ patch_pc = "stream"
    /\ patched.n < MaxDiagnostics
    /\ \E help_lines \in SeqsUpTo(Captures, MaxSuggestions), overflow_checks \in BOOLEAN :
          LET st == Rewrite(file, help_lines, helped, overflow_checks)
          IN  /\ helped' = st.helped
              /\ IF st.panicked
                 THEN patch_pc' = "panicked" /\ file' \in {st.out, <<>>}
                 ELSE patch_pc' = "stream" /\ file' = st.out
              /\ patched' = [n |-> patched.n + 1, before |-> file,
                              help_lines |-> help_lines, after |-> file']
    /\ UNCHANGED notPatch

\* stderr is read to its end: return helped.
PatchReturn ==
    /\ patch_pc = "stream"
    /\ patch_pc' = "returned"
    /\ UNCHANGED <<file, helped, patched>>
    /\ UNCHANGED notPatch

PatchNext == PatchRecord \/ PatchReturn

PatchSpec == PatchInit /\ [][PatchNext]_vars

\* The lines of a text: the pieces between its newlines, without the empty piece
\* that follows a final newline.
LinesOf(text) ==
    LET pieces == split(text)
    IN  IF pieces[Len(pieces)] = <<>> THEN SubSeq(pieces, 1, Len(pieces) - 1) ELSE pieces

\* A suggestion the patcher applies, naming a line of the text.
Applicable(captured, text) ==
    /\ captured.line_number # <<>>
    /\ ~HasPlaceholder(captured.replacement)
    /\ captured.line_number[1] \in 1 .. Len(LinesOf(text))

\* The single-line replacements applied one after another to a list of lines.
RECURSIVE ReplacedInTurn(_, _)
ReplacedInTurn(lines, help_lines) ==
    IF help_lines = <<>>
    THEN lines
    ELSE ReplacedInTurn([lines EXCEPT ![Head(help_lines).line_number[1]] =
                                          Head(help_lines).replacement],
                        Tail(help_lines))

\* C7: after a diagnostic with exactly one applicable suggestion N | text for a
\* file of L lines, 1 <= N <= L, the file has exactly L lines: line N is the
\* text, every other line is as it was.
C7_OneLineReplaced ==
    (patched.n > 0 /\ Len(patched.help_lines) = 1
        /\ Applicable(patched.help_lines[1], patched.before)) =>
            LinesOf(patched.after) = ReplacedInTurn(LinesOf(patched.before), patched.help_lines)

\* C8: after a diagnostic with several applicable suggestions, whatever the order
\* of their line numbers, the lines of the file are those that replacing line
\* after line in the order of the suggestions gives.  (The formula compares the
\* first L lines only, L the number of lines before: a line more at the end of the
\* file does not count against it.)
C8_SuggestionsInTurn ==
    (patched.n > 0 /\ Len(patched.help_lines) > 1
        /\ \A i \in DOMAIN patched.help_lines :
               Applicable(patched.help_lines[i], patched.before)) =>
            /\ Len(LinesOf(patched.after)) >= Len(LinesOf(patched.before))
            /\ SubSeq(LinesOf(patched.after), 1, Len(LinesOf(patched.before)))
                   = ReplacedInTurn(LinesOf(patched.before), patched.help_lines)

\* A suggestion the patcher applies, naming no line of the text: 0, or a number
\* greater than the number of its lines.
OutOfRange(captured, text) ==
    /\ captured.line_number # <<>>
    /\ ~HasPlaceholder(captured.replacement)
    /\ ~(captured.line_number[1] \in 1 .. Len(LinesOf(text)))

\* C16: when a suggestion of a diagnostic names a line number outside 1..L for a
\* file of L lines, repair_standard_help aborts and the file has the content it
\* had before.
C16_AtomicOnFailure ==
    (patched.n > 0 /\ \E i \in DOMAIN patched.help_lines :
                          OutOfRange(patched.help_lines[i], patched.before)) =>
        /\ patch_pc = "panicked"
        /\ patched.after = patched.before
        /\ file = patched.before

----------------------------------------------------------------------------------------------------
\* The lifetime bound inserter: FnLifetimeBounder and repair_bounds_help.
\*
\* The file is its syntax tree as far as the visitor sees it: the function-like
\* items, each with its name, the predicates of its where-clause (none: no
\* where-clause) and the items declared inside its body.  Blocks that only
\* contain items (impl, trait, mod) are walked by the default visitor and are not
\* represented.

MaxNesting == 2

MaxItems == 2

MaxCaptures == 2

MaxBoundRecords == 2

ItemKinds == {"ItemFn", "ImplItemMethod", "TraitItemMethod"}

FnNames == {"f", "g"}

\* The target function of the call.
fn_name == "f"

RECURSIVE BoundItems(_)
BoundItems(depth) ==
    IF depth = 0
    THEN {}
    ELSE [kind : ItemKinds, ident : FnNames, predicates : {<<>>},
          items : SeqsUpTo(BoundItems(depth - 1), 1)]

BoundFiles == SeqsUpTo(BoundItems(MaxNesting), MaxItems)

\* What the regex captures in one rendered text: constraint_lhs and constraint_rhs
\* of every help line, in the order of the text.
BoundCaptures ==
    SeqsUpTo({[lifetime |-> "'a", bound |-> "'b"], [lifetime |-> "'b", bound |-> "'a"]},
             MaxCaptures)

\* get_or_insert the where-clause, push the predicate lifetime: bound.
fn_lifetime_bounder(item, captured) ==
    [item EXCEPT !.predicates = Append(@, captured)]

\* The three visitor methods.  All of them call fn_lifetime_bounder on an item
\* of the target's name; the two method visitors then walk the item's body,
\* visit_item_fn_mut returns without walking it.
RECURSIVE bounder_visit_item(_, _)
bounder_visit_item(item, captured) ==
    LET bounded_item == IF item.ident = fn_name
                        THEN fn_lifetime_bounder(item, captured)
                        ELSE item
    IN  IF item.kind = "ItemFn"
        THEN bounded_item
        ELSE [bounded_item EXCEPT
                 !.items = [i \in DOMAIN @ |-> bounder_visit_item(@[i], captured)]]

bounder_visit_file(items, captured) ==
    [i \in DOMAIN items |-> bounder_visit_item(items[i], captured)]

\* visit.success after the walk: fn_lifetime_bounder was called at least once.
RECURSIVE BounderSuccess(_)
BounderSuccess(items) ==
    \E i \in DOMAIN items :
        \/ items[i].ident = fn_name
        \/ items[i].kind # "ItemFn" /\ BounderSuccess(items[i].items)

\* for captured in help_lines: parse the file, visit it, write it back if the
\* visitor succeeded.  The result is the file and the flag helped.
RECURSIVE BoundHelpLines(_, _, _)
BoundHelpLines(items, was_helped, help_lines) ==
    IF help_lines = <<>>
    THEN [file |-> items, helped |-> was_helped]
    ELSE IF BounderSuccess(items)
         THEN BoundHelpLines(bounder_visit_file(items, Head(help_lines)), TRUE,
                             Tail(help_lines))
         ELSE BoundHelpLines(items, was_helped, Tail(help_lines))

NothingBounded == [n |-> 0, before |-> <<>>, after |-> <<>>, help_lines |-> <<>>]

BoundInit ==
    /\ bound_file \in BoundFiles
    /\ bound_pc = "stream"
    /\ bound_helped = FALSE
    /\ bounded = NothingBounded
    /\ DriverIdle
    /\ ElideIdle
    /\ PatchIdle
    /\ RenameIdle

\* One turn of `for item in stream`.
BoundRecord ==
    /\ bound_pc = "stream"
    /\ bounded.n < MaxBoundRecords
    /\ \E help_lines \in BoundCaptures :
           LET r == BoundHelpLines(bound_file, bound_helped, help_lines)
           IN  /\ bound_file' = r.file
               /\ bound_helped' = r.helped
               /\ bounded' = [n |-> bounded.n + 1, before |-> bound_file, after |-> r.file,
                              help_lines |-> help_lines]
    /\ UNCHANGED bound_pc
    /\ UNCHANGED notBound

\* The stream is at its end: return helped.
BoundReturn ==
    /\ bound_pc = "stream"
    /\ bound_pc' = "returned"
    /\ UNCHANGED <<bound_file, bound_helped, bounded>>
    /\ UNCHANGED notBound

BoundNext ==
    \/ BoundRecord
    \/ BoundReturn

BoundSpec == BoundInit /\ [][BoundNext]_vars

\* Every function-like item of a file, at whatever depth.
RECURSIVE AllItems(_)
AllItems(items) ==
    UNION {{items[i]} \cup AllItems(items[i].items) : i \in DOMAIN items}

\* C6: after repair_bounds_help processed a diagnostic proposing bounds for the
\* target function f, every function-like item named f in the file (a free
\* function wherever it is declared, a method of an impl, a method of a trait) has
\* a where-clause with each proposed predicate; so too when the same bound is
\* proposed a second time.
C6_EveryTargetBounded ==
    (bounded.n > 0 /\ bounded.help_lines # <<>>) =>
        \A item \in AllItems(bounded.after) :
            item.ident = fn_name =>
                \A i \in DOMAIN bounded.help_lines :
                    bounded.help_lines[i] \in Range(item.predicates)

----------------------------------------------------------------------------------------------------
\* The callee renamer: RenameFn and callee_renamer.
\*
\* An identifier is the sequence of its parts, so that contains and replace are
\* computed on it: <<"bar", callee_postfix>> is bar____EXTRACT_THIS.  Expressions
\* are calls, method calls and literals; an item has a name, the expressions of
\* its body and the items declared in its body.

MaxDepth == 2

MaxRenames == 2

callee_postfix == "____EXTRACT_THIS"

callee_name == "bar"

Idents == {<<"bar">>, <<"bar", callee_postfix>>, <<"foo", callee_postfix>>}

\* str::contains and str::replace(from, "") on an identifier.
contains(ident, part) == \E i \in DOMAIN ident : ident[i] = part

replace(ident, from) == SelectSeq(ident, LAMBDA part : part # from)

ExprLit == [kind |-> "ExprLit", ident |-> <<>>, exprs |-> <<>>]

\* exprs of a call are its arguments; of a method call, its receiver and
\* arguments.
RECURSIVE Exprs(_)
Exprs(depth) ==
    IF depth = 0
    THEN {ExprLit}
    ELSE {ExprLit} \cup [kind : {"ExprCall", "ExprMethodCall"}, ident : Idents,
                         exprs : SeqsUpTo(Exprs(depth - 1), 1)]

RenameNestedItems == [kind : ItemKinds, ident : Idents, exprs : {<<>>}, items : {<<>>}]

RenameFiles ==
    {<<item>> : item \in [kind : ItemKinds, ident : Idents,
                          exprs : SeqsUpTo(Exprs(MaxDepth), 1),
                          items : SeqsUpTo(RenameNestedItems, 1)]}

\* visit_expr_method_call_mut renames a matching method call and does not walk
\* it, and walks one that does not match; visit_expr_call_mut renames a matching
\* call and walks the call in both cases.
RECURSIVE rename_visit_expr(_)
rename_visit_expr(e) ==
    CASE e.kind = "ExprMethodCall" ->
             IF contains(e.ident, callee_name)
             THEN [e EXCEPT !.ident = replace(@, callee_postfix)]
             ELSE [e EXCEPT !.exprs = [i \in DOMAIN @ |-> rename_visit_expr(@[i])]]
      [] e.kind = "ExprCall" ->
             [e EXCEPT !.ident = IF contains(@, callee_name)
                                 THEN replace(@, callee_postfix)
                                 ELSE @,
                       !.exprs = [i \in DOMAIN @ |-> rename_visit_expr(@[i])]]
      [] OTHER -> e

\* visit_item_fn_mut, visit_impl_item_method_mut, visit_trait_item_method_mut:
\* rename a matching definition, then walk it.
RECURSIVE rename_visit_item(_)
rename_visit_item(item) ==
    [item EXCEPT !.ident = IF contains(@, callee_name)
                           THEN replace(@, callee_postfix)
                           ELSE @,
                 !.exprs = [i \in DOMAIN @ |-> rename_visit_expr(@[i])],
                 !.items = [i \in DOMAIN @ |-> rename_visit_item(@[i])]]

rename_visit_file(items) == [i \in DOMAIN items |-> rename_visit_item(items[i])]

RenameInit ==
    /\ rename_file \in RenameFiles
    /\ renamed = 0
    /\ DriverIdle
    /\ ElideIdle
    /\ PatchIdle
    /\ BoundIdle

\* callee_renamer: parse, visit, write back.
CalleeRenamer ==
    /\ renamed < MaxRenames
    /\ rename_file' = rename_visit_file(rename_file)
    /\ renamed' = renamed + 1
    /\ UNCHANGED notRename

RenameNext == CalleeRenamer

RenameSpec == RenameInit /\ [][RenameNext]_vars

\* The identifiers of the calls and method calls of an expression, and of the
\* definitions and calls of an item, at whatever depth.
RECURSIVE ExprIdents(_)
ExprIdents(e) ==
    (IF e.kind = "ExprLit" THEN {} ELSE {e.ident})
        \cup UNION {ExprIdents(e.exprs[i]) : i \in DOMAIN e.exprs}

RECURSIVE ItemIdents(_)
ItemIdents(item) ==
    {item.ident}
        \cup UNION {ExprIdents(item.exprs[i]) : i \in DOMAIN item.exprs}
        \cup UNION {ItemIdents(item.items[i]) : i \in DOMAIN item.items}

\* C9: after one callee_renamer pass, no call, method call, function definition
\* or method definition whose identifier contains the logical name still carries
\* the marker suffix, at whatever depth the identifier occurs.
C9_NoSuffixLeft ==
    renamed > 0 =>
        \A i \in DOMAIN rename_file :
            \A ident \in ItemIdents(rename_file[i]) :
                contains(ident, callee_name) => ~contains(ident, callee_postfix)

====
